---- MODULE Spec2Model ----
(***************************************************************************)
(* PublishSubscribeService of src/src/app.ts: the registry of (type,       *)
(* handler) records, subscribe / unsubscribe / publish, and the isPending  *)
(* flag the dispatcher toggles on every subscriber around its handle call. *)
(* Handlers are any ISubscriber: during handle they may call subscribe and *)
(* unsubscribe on the dispatcher they are handed, return, or throw.        *)
(* The program at the end of app.ts (three machines, the sale, low-stock   *)
(* and refill subscribers wired to one dispatcher) is SpecProgram.         *)
(***************************************************************************)
EXTENDS Integers, Sequences, FiniteSets

\* ---------------------------------------------------------------- bounds
\* Longest registry the model builds (subscribe is not called beyond it).
MaxHandlers == 3
\* Most subscribe/unsubscribe calls the handlers make during one publish call.
MaxCalls == 1
\* Longest registry of the program: no refill event is published on a
\* registry of this length, as its handler may add a record.
MaxWiring == 4
\* Highest stock level of a machine: no refill event lifts a machine above.
MaxStock == 10
\* Lowest stock level of a machine for which a sale event is published.
MinStock == 1

\* ------------------------------------------------------------- universe
\* Event type tags (MachineSaleEvent.type, MachineRefillEvent.type).
Types == {"sale", "refill"}

\* Subscriber instances: the three the program creates, and a second
\* instance of MachineSaleSubscriber (same class, another object).
Instances == {"saleSubscriber", "saleSubscriber2",
              "lowStockWarningSubscriber", "refillSubscriber"}

\* handler.constructor.name
Kind(h) ==
  CASE h = "saleSubscriber" -> "MachineSaleSubscriber"
    [] h = "saleSubscriber2" -> "MachineSaleSubscriber"
    [] h = "lowStockWarningSubscriber" -> "LowStockWarningSubscriber"
    [] h = "refillSubscriber" -> "MachineRefillSubscriber"

\* The omitted optional argument of unsubscribe(type, handler?).
NoHandler == "undefined"
NoType == "none"

\* IHandler: one registry record.
IHandler(t, h) == [type |-> t, handler |-> h]

\* The machines the program creates, each with a stock of 10.
Machines == {"001", "002", "003"}
InitialStock == 10

\* eventGenerator: a sale of 1 or 2, or a refill of 3 or 5, of any machine.
SaleQuantities == {1, 2}
RefillQuantities == {3, 5}
Events ==
  [type : {"sale"}, machineId : Machines, quantity : SaleQuantities]
    \cup [type : {"refill"}, machineId : Machines, quantity : RefillQuantities]
NoEvent == [type |-> NoType, machineId |-> "none", quantity |-> 0, stockBefore |-> 0]

\* LowStockWarningSubscriber.checkStock
LowStockLimit == 3
checkStock(stockLevelAfterSale) == stockLevelAfterSale < LowStockLimit

VARIABLES
  handlers,   \* PublishSubscribeService.handlers: the registry
  isPending,  \* ISubscriber.isPending of every instance
  pc,         \* "idle": no publish call running; "handling": inside handle
  snapshot,   \* the array publish iterates (result of filter/map)
  idx,        \* position in snapshot of the record whose handle is running
  calls,      \* subscribe/unsubscribe calls handlers made in this publish
  pub,        \* history: the publish call running or last finished
  last,       \* history: the most recent subscribe/unsubscribe call
  cleared,    \* history: types emptied by unsubscribe(type), not since subscribed
  stockLevel, \* Machine.stockLevel of every machine
  event,      \* the event of the publish call running or last finished
  hpc,        \* "body": the running handle call is at its start; "end": at its end
  evaluated   \* history: stockLevelAfterSale values computed in this publish

\* The dispatcher and its history; the machines and the running event.
service == <<handlers, isPending, pc, snapshot, idx, calls, pub, last, cleared>>
program == <<stockLevel, event, hpc, evaluated>>
vars == <<service, program>>

\* ------------------------------------------------- the dispatcher's code

\* Mutant of Matching: the filter on the event type is left out.
MatchingUnfiltered(reg, t) == reg

\* Mutant of Matching: the matching records come out last first.
MatchingReversed(reg, t) ==
  LET m == SelectSeq(reg, LAMBDA it : it.type = t)
  IN [i \in 1..Len(m) |-> m[Len(m) + 1 - i]]

\* [...this.handlers].filter(it => it.type === event.type())
Matching(reg, t) == SelectSeq(reg, LAMBDA it : it.type = t)

\* Mutant of MarkPending: no flag is set ahead of the forEach loop.
MarkPendingNone(flags, snap) == flags

\* .map(it => { it.handler.isPending = true; return it }) over the matching
\* records: every recipient is flagged before the first handle call.
MarkPending(flags, snap) ==
  [h \in Instances |->
     IF \E i \in 1..Len(snap) : snap[i].handler = h THEN TRUE ELSE flags[h]]

\* handler.isPending = false, after handle returned
ClearPending(flags, h) == [flags EXCEPT ![h] = FALSE]

\* this.handlers.find(it => it.type === type): the first record of the type
\* (0 when there is none).
FindFirst(reg, t) ==
  IF \E i \in 1..Len(reg) : reg[i].type = t
  THEN CHOOSE i \in 1..Len(reg) :
         reg[i].type = t /\ \A j \in 1..(i - 1) : reg[j].type # t
  ELSE 0

\* subscribe returns early: an existingHandler of the same constructor name.
AlreadySubscribed(reg, t, h) ==
  /\ FindFirst(reg, t) # 0
  /\ Kind(reg[FindFirst(reg, t)].handler) = Kind(h)

\* Mutant of SubscribeResult: the new record is put first (unshift for push).
SubscribeResultInFront(reg, t, h) ==
  IF AlreadySubscribed(reg, t, h) THEN reg ELSE <<IHandler(t, h)>> \o reg

\* The registry after subscribe(type, handler).
SubscribeResult(reg, t, h) ==
  IF AlreadySubscribed(reg, t, h) THEN reg ELSE Append(reg, IHandler(t, h))

\* Mutant of UnsubscribeResult: without a handler only the first record of
\* the type is removed.
UnsubscribeResultFirstOnly(reg, t, h) ==
  IF h # NoHandler
  THEN SelectSeq(reg, LAMBDA it : it.type # t \/ Kind(it.handler) # Kind(h))
  ELSE IF FindFirst(reg, t) = 0 THEN reg
       ELSE SubSeq(reg, 1, FindFirst(reg, t) - 1)
              \o SubSeq(reg, FindFirst(reg, t) + 1, Len(reg))

\* Mutant of UnsubscribeResult: handlers are compared by reference, not by
\* constructor name.
UnsubscribeResultByReference(reg, t, h) ==
  SelectSeq(reg, LAMBDA it :
    IF h # NoHandler THEN it.type # t \/ it.handler # h ELSE it.type # t)

\* Mutant of UnsubscribeResult: the handler argument is ignored.
UnsubscribeResultByTypeOnly(reg, t, h) ==
  SelectSeq(reg, LAMBDA it : it.type # t)

\* The registry after unsubscribe(type, handler?).
UnsubscribeResult(reg, t, h) ==
  SelectSeq(reg, LAMBDA it :
    IF h # NoHandler
    THEN it.type # t \/ Kind(it.handler) # Kind(h)
    ELSE it.type # t)

\* ------------------------------------------------------------- history
\* last: the call's arguments, the registry it found, and the handler whose
\* handle made it (NoHandler: the program made it, outside any publish).
NoCall == [op |-> "none", type |-> NoType, handler |-> NoHandler,
           before |-> <<>>, by |-> NoHandler]

\* pub: the event type, the registry and the flags publish found, the
\* records whose handle it has invoked so far, how it ended ("returned",
\* "threw", "none" while it runs), and whether the type was cleared when
\* it began.
NoPub == [type |-> NoType, start |-> <<>>, startPending |-> {},
          invoked |-> <<>>, outcome |-> "none", startCleared |-> FALSE]

PendingSet(flags) == {h \in Instances : flags[h]}

\* The history record of a publish call that begins now.
BeginPub(t, inv, out) ==
  [type |-> t, start |-> handlers, startPending |-> PendingSet(isPending),
   invoked |-> inv, outcome |-> out, startCleared |-> t \in cleared]

ClearedAfterSubscribe(t) == cleared \ {t}
ClearedAfterUnsubscribe(t, h) == IF h = NoHandler THEN cleared \cup {t} ELSE cleared

Init ==
  /\ handlers = <<>>
  /\ isPending = [h \in Instances |-> FALSE]
  /\ pc = "idle"
  /\ snapshot = <<>>
  /\ idx = 0
  /\ calls = 0
  /\ pub = NoPub
  /\ last = NoCall
  /\ cleared = {}
  /\ stockLevel = [m \in Machines |-> InitialStock]
  /\ event = NoEvent
  /\ hpc = "body"
  /\ evaluated = <<>>

\* ------------------------------------------------------------- actions

\* subscribe(type, handler) called by the program (no publish running).
Subscribe(t, h) ==
  /\ pc = "idle"
  /\ Len(SubscribeResult(handlers, t, h)) <= MaxHandlers
  /\ handlers' = SubscribeResult(handlers, t, h)
  /\ last' = [op |-> "subscribe", type |-> t, handler |-> h,
              before |-> handlers, by |-> NoHandler]
  /\ cleared' = ClearedAfterSubscribe(t)
  /\ pub' = NoPub
  /\ snapshot' = <<>>
  /\ idx' = 0
  /\ UNCHANGED <<isPending, pc, calls>>

\* unsubscribe(type, handler?) called by the program.
Unsubscribe(t, h) ==
  /\ pc = "idle"
  /\ handlers' = UnsubscribeResult(handlers, t, h)
  /\ last' = [op |-> "unsubscribe", type |-> t, handler |-> h,
              before |-> handlers, by |-> NoHandler]
  /\ cleared' = ClearedAfterUnsubscribe(t, h)
  /\ pub' = NoPub
  /\ snapshot' = <<>>
  /\ idx' = 0
  /\ UNCHANGED <<isPending, pc, calls>>

\* publish(event) up to the first handle call: the early return on an empty
\* registry, else filter, map (flags set), and forEach entering handle of
\* the first recipient; with no recipient publish returns at once.
PublishBegin(t) ==
  /\ pc = "idle"
  /\ LET snap == IF Len(handlers) = 0 THEN <<>> ELSE Matching(handlers, t)
     IN /\ snapshot' = snap
        /\ isPending' = IF Len(handlers) = 0 THEN isPending
                        ELSE MarkPending(isPending, snap)
        /\ IF Len(snap) = 0
           THEN /\ pc' = "idle"
                /\ idx' = 0
                /\ pub' = BeginPub(t, <<>>, "returned")
           ELSE /\ pc' = "handling"
                /\ idx' = 1
                /\ pub' = BeginPub(t, <<snap[1]>>, "none")
  /\ calls' = 0
  /\ last' = NoCall
  /\ UNCHANGED <<handlers, cleared>>

\* subscribe(type, handler) as run when the running handler calls it.
SubscribeInHandle(t, h) ==
  /\ pc = "handling"
  /\ handlers' = SubscribeResult(handlers, t, h)
  /\ last' = [op |-> "subscribe", type |-> t, handler |-> h,
              before |-> handlers, by |-> snapshot[idx].handler]
  /\ cleared' = ClearedAfterSubscribe(t)
  /\ calls' = calls + 1
  /\ UNCHANGED <<isPending, pc, snapshot, idx, pub>>

\* The running handler calls pubSubService.subscribe(type, handler).
HandlerSubscribe(t, h) ==
  /\ calls < MaxCalls
  /\ Len(SubscribeResult(handlers, t, h)) <= MaxHandlers
  /\ SubscribeInHandle(t, h)

\* Every handler subscribes a handler for the type being published, once in
\* each of its handle calls at most.
HandlerSubscribeFurther(h) ==
  /\ pc = "handling"
  /\ calls < idx
  /\ SubscribeInHandle(pub.type, h)

\* Mutant of HandlerUnsubscribe: an unsubscribe made while publish runs is
\* dropped instead of being applied to the live registry.
HandlerUnsubscribeDropped(t, h) ==
  /\ pc = "handling"
  /\ calls < MaxCalls
  /\ last' = [op |-> "unsubscribe", type |-> t, handler |-> h,
              before |-> handlers, by |-> snapshot[idx].handler]
  /\ cleared' = ClearedAfterUnsubscribe(t, h)
  /\ calls' = calls + 1
  /\ UNCHANGED <<handlers, isPending, pc, snapshot, idx, pub>>

\* The running handler calls pubSubService.unsubscribe(type, handler?).
HandlerUnsubscribe(t, h) ==
  /\ pc = "handling"
  /\ calls < MaxCalls
  /\ handlers' = UnsubscribeResult(handlers, t, h)
  /\ last' = [op |-> "unsubscribe", type |-> t, handler |-> h,
              before |-> handlers, by |-> snapshot[idx].handler]
  /\ cleared' = ClearedAfterUnsubscribe(t, h)
  /\ calls' = calls + 1
  /\ UNCHANGED <<isPending, pc, snapshot, idx, pub>>

\* Mutant of HandleReturn: when the last handle has returned publish puts
\* the copy it took of the registry back in place of the live registry.
HandleReturnRestoring ==
  /\ pc = "handling"
  /\ isPending' = ClearPending(isPending, snapshot[idx].handler)
  /\ IF idx < Len(snapshot)
     THEN /\ idx' = idx + 1
          /\ pc' = "handling"
          /\ pub' = [pub EXCEPT !.invoked = Append(@, snapshot[idx + 1])]
          /\ handlers' = handlers
     ELSE /\ idx' = idx
          /\ pc' = "idle"
          /\ pub' = [pub EXCEPT !.outcome = "returned"]
          /\ handlers' = pub.start
  /\ UNCHANGED <<snapshot, calls, last, cleared>>

\* Mutant of HandleReturn: forEach runs over the live registry, so a record
\* added while publish runs is invoked by the same call.
HandleReturnLive ==
  /\ pc = "handling"
  /\ isPending' = ClearPending(isPending, snapshot[idx].handler)
  /\ LET live == Matching(handlers, pub.type)
     IN IF idx < Len(live) /\ idx < MaxHandlers
        THEN /\ idx' = idx + 1
             /\ pc' = "handling"
             /\ snapshot' = live
             /\ pub' = [pub EXCEPT !.invoked = Append(@, live[idx + 1])]
        ELSE /\ idx' = idx
             /\ pc' = "idle"
             /\ snapshot' = snapshot
             /\ pub' = [pub EXCEPT !.outcome = "returned"]
  /\ UNCHANGED <<handlers, calls, last, cleared>>

\* handle returns: the flag is cleared and forEach goes on to the next
\* recipient's handle, or publish returns after the last one.
HandleReturn ==
  /\ pc = "handling"
  /\ isPending' = ClearPending(isPending, snapshot[idx].handler)
  /\ IF idx < Len(snapshot)
     THEN /\ idx' = idx + 1
          /\ pc' = "handling"
          /\ pub' = [pub EXCEPT !.invoked = Append(@, snapshot[idx + 1])]
     ELSE /\ idx' = idx
          /\ pc' = "idle"
          /\ pub' = [pub EXCEPT !.outcome = "returned"]
  /\ UNCHANGED <<handlers, snapshot, calls, last, cleared>>

\* Mutant of HandleThrow: publish catches the exception, goes on with the
\* next recipient and reports the failure when the loop has ended.
HandleThrowCaught ==
  /\ pc = "handling"
  /\ IF idx < Len(snapshot)
     THEN /\ idx' = idx + 1
          /\ pc' = "handling"
          /\ pub' = [pub EXCEPT !.invoked = Append(@, snapshot[idx + 1]),
                                !.outcome = "threw"]
     ELSE /\ idx' = idx
          /\ pc' = "idle"
          /\ pub' = [pub EXCEPT !.outcome = "threw"]
  /\ UNCHANGED <<handlers, isPending, snapshot, calls, last, cleared>>

\* handle throws: nothing in publish catches it, so forEach and publish are
\* left at once and the statement after handle is not run.
HandleThrow ==
  /\ pc = "handling"
  /\ pc' = "idle"
  /\ pub' = [pub EXCEPT !.outcome = "threw"]
  /\ UNCHANGED <<handlers, isPending, snapshot, idx, calls, last, cleared>>

\* Arguments the callers are given: unsubscribe with any handler or none,
\* subscribe with any subscriber for "sale" and two of them for "refill".
HandlerArgs == Instances \cup {NoHandler}
Subscribable ==
  ({"sale"} \X Instances)
    \cup ({"refill"} \X {"refillSubscriber", "lowStockWarningSubscriber"})

\* Every handle call returns (as the repository's three subscribers do).
Next ==
  \/ \E p \in Subscribable : Subscribe(p[1], p[2]) /\ UNCHANGED program
  \/ \E t \in Types, h \in HandlerArgs : Unsubscribe(t, h) /\ UNCHANGED program
  \/ \E t \in Types : PublishBegin(t) /\ UNCHANGED program
  \/ \E p \in Subscribable : HandlerSubscribe(p[1], p[2]) /\ UNCHANGED program
  \/ \E t \in Types, h \in HandlerArgs : HandlerUnsubscribe(t, h) /\ UNCHANGED program
  \/ HandleReturn /\ UNCHANGED program

Spec == Init /\ [][Next]_vars

\* Handlers that leave the registry alone and may throw: the states between
\* publish calls (registry, flags a throw left set) are those of SpecAny.
NextThrow ==
  \/ \E p \in Subscribable : Subscribe(p[1], p[2]) /\ UNCHANGED program
  \/ \E t \in Types, h \in HandlerArgs : Unsubscribe(t, h) /\ UNCHANGED program
  \/ \E t \in Types : PublishBegin(t) /\ UNCHANGED program
  \/ HandleReturn /\ UNCHANGED program
  \/ HandleThrow /\ UNCHANGED program

SpecThrow == Init /\ [][NextThrow]_vars

\* Any ISubscriber: a handle call may change the registry and may throw.
NextAny == Next \/ (HandleThrow /\ UNCHANGED program)

SpecAny == Init /\ [][NextAny]_vars

\* ------------------------------------------------------------- program
\* The program: three machines, saleSubscriber, lowStockWarningSubscriber
\* and refillSubscriber subscribed in this order, then events published.
\* Every event names one of the three machines, so the handlers' early
\* return for an unknown machine is not taken.

\* The registry after the program's three subscribe calls.
Wiring ==
  SubscribeResult(
    SubscribeResult(
      SubscribeResult(<<>>, "sale", "saleSubscriber"),
      "sale", "lowStockWarningSubscriber"),
    "refill", "refillSubscriber")

InitProgram ==
  /\ handlers = Wiring
  /\ isPending = [h \in Instances |-> FALSE]
  /\ pc = "idle"
  /\ snapshot = <<>>
  /\ idx = 0
  /\ calls = 0
  /\ pub = NoPub
  /\ last = NoCall
  /\ cleared = {}
  /\ stockLevel = [m \in Machines |-> InitialStock]
  /\ event = NoEvent
  /\ hpc = "body"
  /\ evaluated = <<>>

\* The subscriber whose handle call is running.
Running == snapshot[idx].handler

\* pubSubService.publish(e) called by the program.
PublishEvent(e) ==
  /\ e.type = "sale" => stockLevel[e.machineId] >= MinStock
  /\ e.type = "refill" =>
       /\ Len(handlers) < MaxWiring
       /\ stockLevel[e.machineId] + e.quantity <= MaxStock
  /\ PublishBegin(e.type)
  /\ event' = [type |-> e.type, machineId |-> e.machineId,
               quantity |-> e.quantity, stockBefore |-> stockLevel[e.machineId]]
  /\ hpc' = "body"
  /\ evaluated' = <<>>
  /\ UNCHANGED stockLevel

\* MachineSaleSubscriber.handle
SaleHandle ==
  /\ pc = "handling" /\ hpc = "body"
  /\ Running \in {"saleSubscriber", "saleSubscriber2"}
  /\ stockLevel' = [stockLevel EXCEPT ![event.machineId] = @ - event.quantity]
  /\ hpc' = "end"
  /\ UNCHANGED <<service, event, evaluated>>

\* LowStockWarningSubscriber.handle: the level it takes for the stock after
\* the sale, from the sale subscriber's flag.
StockLevelAfterSale ==
  IF isPending["saleSubscriber"]
  THEN stockLevel[event.machineId] - event.quantity
  ELSE stockLevel[event.machineId]

\* LowStockWarningSubscriber.handle
LowStockHandle ==
  /\ pc = "handling" /\ hpc = "body"
  /\ Running = "lowStockWarningSubscriber"
  /\ evaluated' = Append(evaluated, StockLevelAfterSale)
  /\ IF checkStock(StockLevelAfterSale)
     THEN HandlerUnsubscribe("sale", "saleSubscriber")
     ELSE UNCHANGED service
  /\ hpc' = "end"
  /\ UNCHANGED <<stockLevel, event>>

\* MachineRefillSubscriber.handle
RefillHandle ==
  /\ pc = "handling" /\ hpc = "body"
  /\ Running = "refillSubscriber"
  /\ stockLevel' = [stockLevel EXCEPT ![event.machineId] = @ + event.quantity]
  /\ IF ~checkStock(stockLevel'[event.machineId])
     THEN SubscribeInHandle("sale", "saleSubscriber")
     ELSE UNCHANGED service
  /\ hpc' = "end"
  /\ UNCHANGED <<event, evaluated>>

\* The handle call returns to publish (forEach's callback goes on).
HandleEnd ==
  /\ hpc = "end"
  /\ HandleReturn
  /\ hpc' = "body"
  /\ UNCHANGED <<stockLevel, event, evaluated>>

NextProgram ==
  \/ \E e \in Events : PublishEvent(e)
  \/ SaleHandle
  \/ LowStockHandle
  \/ RefillHandle
  \/ HandleEnd

SpecProgram == InitProgram /\ [][NextProgram]_vars

\* ---------------------------------------------------------------- claims
\* What the claims speak of, written without the dispatcher's operators.

\* The records of a registry whose type is t, in registry order.
OfType(reg, t) == SelectSeq(reg, LAMBDA r : r.type = t)

\* Two records are one (type, handler kind) pair.
SameSlot(r1, r2) == r1.type = r2.type /\ Kind(r1.handler) = Kind(r2.handler)

\* The handler instances of a sequence of records.
HandlersOf(recs) == {recs[i].handler : i \in 1..Len(recs)}

\* h had a delivery of the running publish call that has completed.
Visited(h) == \E j \in 1..(idx - 1) : snapshot[j].handler = h

SaleRecord == IHandler("sale", "saleSubscriber")
LowStockRecord == IHandler("sale", "lowStockWarningSubscriber")
RefillOnSaleRecord == IHandler("sale", "refillSubscriber")

\* C1: the handlers a publish call invokes are the records of the event's
\* type in the registry as it stood when the call began, in registry order:
\* while the call runs, the records invoked so far are the first idx of
\* them, and when it has returned they are all of them, whatever subscribe
\* and unsubscribe calls the handlers made meanwhile.
C1_RecipientsAreStartSnapshot ==
  /\ pc = "handling" =>
       /\ idx <= Len(OfType(pub.start, pub.type))
       /\ pub.invoked = SubSeq(OfType(pub.start, pub.type), 1, idx)
  /\ (pc = "idle" /\ pub.outcome = "returned") =>
       pub.invoked = OfType(pub.start, pub.type)

\* A publish call has returned after three handle calls although a handler
\* changed which records of that type the live registry holds.
C1_Witness ==
  /\ pc = "idle"
  /\ pub.outcome = "returned"
  /\ Len(pub.invoked) = 3
  /\ Cardinality(HandlersOf(pub.invoked)) = 3
  /\ calls > 0
  /\ OfType(handlers, pub.type) # pub.invoked

\* C2, as claimed: while one recipient of a publish call is executing, the
\* in-flight flag of every other recipient of that call is false.
C2_OtherRecipientsNotPending ==
  pc = "handling" =>
    \A h \in HandlersOf(snapshot) :
      h # snapshot[idx].handler => ~isPending[h]

\* C2, amended: while one recipient of a publish call is executing, the flag
\* of every recipient is true exactly when none of its deliveries of this
\* call has completed: already visited recipients read false, recipients not
\* yet visited read true (all flags are set before the first handle call,
\* each is cleared right after its handle returns).
C2_PendingUntilVisited ==
  pc = "handling" =>
    \A h \in HandlersOf(snapshot) : isPending[h] <=> ~Visited(h)

\* The second of three different recipients is executing.
C2_Witness ==
  /\ pc = "handling"
  /\ idx = 2
  /\ Len(snapshot) = 3
  /\ Cardinality(HandlersOf(snapshot)) = 3

\* C3: the registry holds at most one record per (type, handler kind).
C3_OneRecordPerTypeAndKind ==
  \A i, j \in 1..Len(handlers) : SameSlot(handlers[i], handlers[j]) => i = j

\* The record r is one unsubscribe(t, h) is to remove.
Removed(r, t, h) ==
  IF h = NoHandler THEN r.type = t ELSE r.type = t /\ Kind(r.handler) = Kind(h)

\* reg without the records unsubscribe(t, h) is to remove, order kept.
Without(reg, t, h) == SelectSeq(reg, LAMBDA r : ~Removed(r, t, h))

\* C4: after unsubscribe(type) without a handler the registry holds no
\* record of that type and the records of the other types as they were, in
\* their order; until a subscribe for the type is made the registry holds
\* none of it, and a publish of that type begun meanwhile invokes no handler.
C4_UnsubscribeTypeRemovesAll ==
  /\ (last.op = "unsubscribe" /\ last.handler = NoHandler) =>
       /\ \A i \in 1..Len(handlers) : handlers[i].type # last.type
       /\ handlers = SelectSeq(last.before, LAMBDA r : r.type # last.type)
  /\ \A t \in cleared : \A i \in 1..Len(handlers) : handlers[i].type # t
  /\ pub.startCleared => (pub.invoked = <<>> /\ pub.outcome = "returned")

\* unsubscribe(type) removed the record between two records of the other
\* type, which stay in their order.
C4_Witness ==
  /\ last.op = "unsubscribe"
  /\ last.handler = NoHandler
  /\ Len(last.before) = 3
  /\ last.before[2].type = last.type
  /\ last.before[1] # last.before[3]
  /\ handlers = <<last.before[1], last.before[3]>>

\* C5: unsubscribe(type, handler) leaves the registry as it was without the
\* records of that type whose handler is of the kind of `handler` (the same
\* instance or another one); all other records stay, in their order.
C5_UnsubscribeHandlerRemovesKind ==
  (last.op = "unsubscribe" /\ last.handler # NoHandler) =>
    handlers = SelectSeq(last.before, LAMBDA r :
                 ~(r.type = last.type /\ Kind(r.handler) = Kind(last.handler)))

\* unsubscribe("sale", saleSubscriber) removed the record of
\* saleSubscriber2 and kept a "sale" record of another kind and a "refill"
\* record.
C5_Witness ==
  /\ last.op = "unsubscribe"
  /\ last.type = "sale"
  /\ last.handler = "saleSubscriber"
  /\ Len(last.before) = 3
  /\ \E i \in 1..3 : last.before[i] = IHandler("sale", "saleSubscriber2")
  /\ Len(handlers) = 2
  /\ handlers[1].type # handlers[2].type

\* C6: subscribe(type, handler), made when the registry holds no record of
\* that type and handler kind, leaves the registry as it was with the one
\* record (type, handler) added at its end.
C6_SubscribeAppends ==
  (/\ last.op = "subscribe"
   /\ \A i \in 1..Len(last.before) :
        ~SameSlot(last.before[i], IHandler(last.type, last.handler))) =>
    handlers = Append(last.before, IHandler(last.type, last.handler))

\* A third record was subscribed behind two records, one of them of the
\* same type.
C6_Witness ==
  /\ last.op = "subscribe"
  /\ Len(last.before) = 2
  /\ Len(handlers) = 3
  /\ last.before[1].type = last.type
  /\ handlers[3] = IHandler(last.type, last.handler)

\* The registry the claims expect after the call c: for an unsubscribe the
\* registry before it without the records to remove, for a subscribe of a
\* (type, kind) the registry did not hold the registry with the record added.
Settled(c) ==
  \/ c.op = "unsubscribe"
  \/ /\ c.op = "subscribe"
     /\ \A i \in 1..Len(c.before) :
          ~SameSlot(c.before[i], IHandler(c.type, c.handler))

ExpectedAfter(c) ==
  IF c.op = "unsubscribe"
  THEN Without(c.before, c.type, c.handler)
  ELSE Append(c.before, IHandler(c.type, c.handler))

\* A publish call begins with this step.
PublishBegins == pc = "idle" /\ pub'.type # NoType

\* C7: a subscribe or unsubscribe a handler made during a publish call
\* decides the recipients of the publish call that follows: that call, when
\* it returned, had invoked every record of its own snapshot, and the
\* publish that follows has as recipients the records of the event's type
\* in the registry as the handler's call left it. With A, B, C
\* subscribed and B unsubscribing C: A, B, C are invoked, then A and B.
C7_HandlerCallDecidesNextPublish ==
  [][(PublishBegins /\ last.by # NoHandler /\ Settled(last)) =>
       /\ pub.outcome = "returned" => pub.invoked = OfType(pub.start, pub.type)
       /\ snapshot' = OfType(ExpectedAfter(last), pub'.type)
       /\ pc' = IF snapshot' = <<>> THEN "idle" ELSE "handling"
       /\ pub'.invoked = IF snapshot' = <<>> THEN <<>> ELSE <<snapshot'[1]>>]_vars

\* The publish of a "sale" event has invoked A, B, C (sale, low-stock and
\* refill subscriber, subscribed in that order), B's handle unsubscribed C,
\* and the registry now holds A and B.
C7_Witness ==
  /\ pc = "idle"
  /\ pub.outcome = "returned"
  /\ pub.type = "sale"
  /\ pub.start = <<SaleRecord, LowStockRecord, RefillOnSaleRecord>>
  /\ pub.invoked = <<SaleRecord, LowStockRecord, RefillOnSaleRecord>>
  /\ last.op = "unsubscribe"
  /\ last.type = "sale"
  /\ last.handler = "refillSubscriber"
  /\ last.by = "lowStockWarningSubscriber"
  /\ handlers = <<SaleRecord, LowStockRecord>>

\* C8: while a handler's handle invocation is executing, that handler's
\* in-flight flag reads true.
C8_PendingWhileHandling ==
  pc = "handling" => isPending[snapshot[idx].handler]

\* C9: a publish that finds the registry empty, or without a record of the
\* event's type, invokes no handler, returns without an error, and leaves
\* the registry and every in-flight flag as they were.
C9_PublishWithoutRecipients ==
  (pub.type # NoType /\ \A i \in 1..Len(pub.start) : pub.start[i].type # pub.type) =>
    /\ pub.invoked = <<>>
    /\ pub.outcome = "returned"
    /\ pc = "idle"
    /\ handlers = pub.start
    /\ PendingSet(isPending) = pub.startPending

\* A publish found two records, none of the event's type, and a flag left
\* set by an earlier publish that a throwing handler ended.
C9_Witness ==
  /\ pub.type # NoType
  /\ Len(pub.start) = 2
  /\ \A i \in 1..Len(pub.start) : pub.start[i].type # pub.type
  /\ pub.startPending # {}
  /\ pub.outcome = "returned"

\* C10: an unsubscribe, with or without a handler, that finds no record to
\* remove leaves the registry's records and their order as they were.
C10_UnsubscribeWithoutMatch ==
  (/\ last.op = "unsubscribe"
   /\ \A i \in 1..Len(last.before) :
        ~Removed(last.before[i], last.type, last.handler)) =>
    handlers = last.before

\* unsubscribe(type, handler) found two records of the type, both of
\* another kind than the handler, and removed none.
C10_Witness ==
  /\ last.op = "unsubscribe"
  /\ last.handler # NoHandler
  /\ Len(last.before) = 2
  /\ \A i \in 1..2 :
       /\ last.before[i].type = last.type
       /\ Kind(last.before[i].handler) # Kind(last.handler)
  /\ handlers = last.before

\* publish(event) called by the program on a registry it has built.
PublishOnBuilt(t) ==
  /\ Len(handlers) <= MaxHandlers
  /\ PublishBegin(t)

\* Every handle call returns, and every handler may subscribe a handler for
\* the published type in each of its handle calls.
NextGrow ==
  \/ \E p \in Subscribable : Subscribe(p[1], p[2]) /\ UNCHANGED program
  \/ \E t \in Types : PublishOnBuilt(t) /\ UNCHANGED program
  \/ \E h \in Instances : HandlerSubscribeFurther(h) /\ UNCHANGED program
  \/ HandleReturn /\ UNCHANGED program

\* A handle call that has been entered returns (the claim's proviso); the
\* program is free to make no further call.
SpecGrow ==
  Init /\ [][NextGrow]_vars /\ WF_vars(HandleReturn /\ UNCHANGED program)

\* C12: a publish call that is running ends, provided every handle call
\* returns: it returns having invoked each record of the snapshot it took
\* at its start exactly once, in order, however many handlers of the
\* published type the invoked handlers subscribed meanwhile.
C12_PublishTerminates ==
  (pc = "handling") ~>
    (/\ pc = "idle"
     /\ pub.outcome = "returned"
     /\ pub.invoked = OfType(pub.start, pub.type))

\* A publish call with two recipients has returned; each of the two
\* handlers added a record of the published type while it ran.
C12_Witness ==
  /\ pc = "idle"
  /\ pub.outcome = "returned"
  /\ Len(pub.invoked) = 2
  /\ calls = 2
  /\ Len(OfType(handlers, pub.type)) = 4
  /\ SubSeq(handlers, 1, Len(pub.start)) = pub.start

\* C11: when a handle call throws, publish ends there with the exception:
\* the records invoked are the first idx recipients of the snapshot taken at
\* the start, the last of them the one that threw, each invoked once, and
\* no later recipient is invoked.
C11_ThrowEndsPublish ==
  pub.outcome = "threw" =>
    /\ pc = "idle"
    /\ idx >= 1 /\ idx <= Len(OfType(pub.start, pub.type))
    /\ pub.invoked = SubSeq(OfType(pub.start, pub.type), 1, idx)

\* The first of three recipients threw; the other two were not invoked.
C11_Witness ==
  /\ pc = "idle"
  /\ pub.outcome = "threw"
  /\ Len(OfType(pub.start, pub.type)) = 3
  /\ Len(pub.invoked) = 1

\* C13: whenever no publish call is in progress, every handler's in-flight
\* flag is false.
C13_IdleMeansNoFlagSet ==
  pc = "idle" => \A h \in Instances : ~isPending[h]

\* h has a delivery of the running publish call that has not completed: it
\* is being handled or still to be handled.
DeliveryLeft(h) == \E j \in idx..Len(snapshot) : snapshot[j].handler = h

\* C14: during a publish call the flag of every handler instance in the
\* snapshot is true exactly when a delivery of this call to the instance
\* has not completed.
C14_PendingIffDeliveryLeft ==
  pc = "handling" =>
    \A h \in HandlersOf(snapshot) : isPending[h] <=> DeliveryLeft(h)

\* A subscribe or unsubscribe call is made with this step.
CallStep == last' # last /\ last'.op # "none"

\* C15: a step of publish itself (its start, the return of a handle call,
\* its end) leaves the registry as it is; a subscribe or unsubscribe call
\* changes the live registry in that very step: unsubscribe to the registry
\* without the records to remove, subscribe to the registry as it is or
\* with the one record added at the end.
C15_PublishKeepsRegistry ==
  [][/\ ~CallStep => handlers' = handlers
     /\ CallStep =>
          /\ last'.before = handlers
          /\ last'.op = "unsubscribe" =>
               handlers' = Without(handlers, last'.type, last'.handler)
          /\ last'.op = "subscribe" =>
               \/ handlers' = handlers
               \/ handlers' = Append(handlers, IHandler(last'.type, last'.handler))]_vars

\* A publish call with two recipients has returned; the registry differs
\* from the one it began with by the one call a handler made.
C15_Witness ==
  /\ pc = "idle"
  /\ pub.outcome = "returned"
  /\ Len(pub.invoked) = 2
  /\ last.by # NoHandler
  /\ last.before = pub.start
  /\ handlers # pub.start
  /\ handlers = ExpectedAfter(last)

\* The deliveries of the running or last publish call to the sale subscriber.
SaleDeliveries ==
  {i \in DOMAIN pub.invoked : pub.invoked[i].handler = "saleSubscriber"}

\* C16: in the program, a published sale event is delivered to the sale
\* subscriber at most once, and so lowers the stock of its machine by at
\* most the sold quantity.
C16_SaleDeliveredOnce ==
  event.type = "sale" =>
    /\ Cardinality(SaleDeliveries) <= 1
    /\ stockLevel[event.machineId] >= event.stockBefore - event.quantity

\* C17: in the program, when the publish call of a sale event has returned,
\* every stockLevelAfterSale the low-stock subscriber computed during the
\* call equals the stock level of the event's machine.
C17_EvaluatedIsFinalStock ==
  (pc = "idle" /\ pub.outcome = "returned" /\ event.type = "sale") =>
    \A i \in DOMAIN evaluated : evaluated[i] = stockLevel[event.machineId]

====
